---- MODULE Spec2Model ----
(***************************************************************************)
(* A model of stftpd (src/src/stftpd.py): the TFTP server's dispatcher      *)
(* loop (Server.run), the per-peer session (ClientConnection) and the      *)
(* per-session watchdog thread (Watchdog).                                  *)
(*                                                                         *)
(* Strings and datagrams are sequences of byte values.  The dispatcher and *)
(* every watchdog are threads; their steps interleave at the points where  *)
(* the source shares state without a lock (the sessions map, the session's *)
(* file handle and its last datagram).                                     *)
(***************************************************************************)
EXTENDS Integers, Sequences, FiniteSets, TLC

(***************************************************************************)
(* Bytes and strings                                                       *)
(***************************************************************************)

\* The code of a character (ASCII), for the characters the model writes.
Ord(c) ==
  CASE c = "/" -> 47 [] c = "." -> 46 [] c = "{" -> 123 [] c = "}" -> 125
    [] c = ":" -> 58 [] c = "%" -> 37 [] c = "_" -> 95 [] c = "Y" -> 89
    [] c = "0" -> 48 [] c = "1" -> 49 [] c = "2" -> 50 [] c = "3" -> 51
    [] c = "4" -> 52 [] c = "5" -> 53 [] c = "6" -> 54 [] c = "7" -> 55
    [] c = "8" -> 56 [] c = "9" -> 57
    [] c = "a" -> 97 [] c = "b" -> 98 [] c = "c" -> 99 [] c = "d" -> 100
    [] c = "e" -> 101 [] c = "f" -> 102 [] c = "i" -> 105 [] c = "l" -> 108
    [] c = "m" -> 109 [] c = "n" -> 110 [] c = "o" -> 111 [] c = "p" -> 112
    [] c = "r" -> 114 [] c = "s" -> 115 [] c = "t" -> 116 [] c = "u" -> 117
    [] c = "v" -> 118 [] c = "w" -> 119 [] c = "x" -> 120 [] c = "y" -> 121
    [] c = " " -> 32 [] c = "C" -> 67 [] c = "F" -> 70 [] c = "I" -> 73
    [] c = "T" -> 84 [] c = "P" -> 80 [] c = "U" -> 85 [] c = "D" -> 68
    [] c = "k" -> 107 [] c = "g" -> 103 [] c = "h" -> 104

\* A string literal, written as a tuple of its characters.
Str(t) == [i \in DOMAIN t |-> Ord(t[i])]

\* The value an operation has when it raises instead of returning.
Raise == <<-1>>

StartsWithAt(s, i, p) ==
  /\ i + Len(p) - 1 <= Len(s)
  /\ \A j \in 1..Len(p) : s[i + j - 1] = p[j]

\* str.startswith
StartsWith(s, p) == StartsWithAt(s, 1, p)

\* str.lstrip("/")
RECURSIVE Lstrip(_)
Lstrip(s) == IF s # <<>> /\ Head(s) = Ord("/") THEN Lstrip(Tail(s)) ELSE s

\* The index of the first c in s at or after i, or 0.
RECURSIVE IndexFrom(_, _, _)
IndexFrom(s, i, c) ==
  IF i > Len(s) THEN 0 ELSE IF s[i] = c THEN i ELSE IndexFrom(s, i + 1, c)

\* str.replace(old, new): every non-overlapping occurrence, left to right.
RECURSIVE Replace(_, _, _)
Replace(s, old, new) ==
  IF s = <<>> \/ old = <<>> THEN s
  ELSE IF StartsWithAt(s, 1, old)
       THEN new \o Replace(SubSeq(s, Len(old) + 1, Len(s)), old, new)
       ELSE <<Head(s)>> \o Replace(Tail(s), old, new)

\* str(n) of a non-negative integer.
RECURSIVE Digits(_)
Digits(n) == IF n < 10 THEN <<48 + n>> ELSE Digits(n \div 10) \o <<48 + (n % 10)>>

(***************************************************************************)
(* Path resolution: ClientConnection.get_local_filename                    *)
(***************************************************************************)

\* The index of the first occurrence of p in s at or after i, or 0.
RECURSIVE FindSub(_, _, _)
FindSub(s, i, p) ==
  IF i + Len(p) - 1 > Len(s) THEN 0
  ELSE IF StartsWithAt(s, i, p) THEN i ELSE FindSub(s, i + 1, p)

DatetimeOpen == Str(<<"{", "d", "a", "t", "e", "t", "i", "m", "e", ":">>)

\* regex_datetime.search(template): the leftmost "{datetime:" that is closed
\* by a "}", as <<start, end>>, or <<0, 0>> when there is no match.
DatetimeSearch(t) ==
  LET i == FindSub(t, 1, DatetimeOpen)
      j == IF i = 0 THEN 0 ELSE IndexFrom(t, i + Len(DatetimeOpen), Ord("}"))
  IN  IF i = 0 \/ j = 0 THEN <<0, 0>> ELSE <<i, j>>

\* current_time.strftime(format): %Y is the year, any other character is
\* copied.
RECURSIVE Strftime(_, _)
Strftime(fmt, year) ==
  IF fmt = <<>> THEN <<>>
  ELSE IF StartsWithAt(fmt, 1, Str(<<"%", "Y">>))
       THEN Digits(year) \o Strftime(SubSeq(fmt, 3, Len(fmt)), year)
       ELSE <<Head(fmt)>> \o Strftime(Tail(fmt), year)

\* The loop that replaces datetime markers, at most i times.
RECURSIVE ExpandDatetime(_, _, _)
ExpandDatetime(t, year, i) ==
  LET m == DatetimeSearch(t)
  IN  IF m[1] = 0 \/ i <= 0 THEN t
      ELSE ExpandDatetime(
             Replace(t, SubSeq(t, m[1], m[2]),
                     Strftime(SubSeq(t, m[1] + Len(DatetimeOpen), m[2] - 1), year)),
             year, i - 1)

\* The socket (remote_ip, remote_port) of peer k.
RemoteIp(k) == Str(<<"1", "0", ".", "0", ".", "0", ".">>) \o Digits(k)
RemotePort(k) == 1000 + k

\* template.format(filename=..., remote_ip=..., remote_port=...): a field
\* that names no value raises KeyError, an unmatched brace ValueError.
RECURSIVE Format(_, _, _)
Format(t, filename, k) ==
  IF t = <<>> THEN <<>>
  ELSE IF Head(t) = Ord("{")
  THEN LET j == IndexFrom(t, 2, Ord("}"))
           field == SubSeq(t, 2, j - 1)
           value == IF field = Str(<<"f", "i", "l", "e", "n", "a", "m", "e">>)
                      THEN filename
                    ELSE IF field = Str(<<"r", "e", "m", "o", "t", "e", "_", "i", "p">>)
                      THEN RemoteIp(k)
                    ELSE IF field = Str(<<"r", "e", "m", "o", "t", "e", "_", "p", "o", "r", "t">>)
                      THEN Digits(RemotePort(k))
                    ELSE Raise
           rest == IF j = 0 THEN Raise ELSE Format(SubSeq(t, j + 1, Len(t)), filename, k)
       IN  IF j = 0 \/ value = Raise \/ rest = Raise THEN Raise ELSE value \o rest
  ELSE IF Head(t) = Ord("}") THEN Raise
  ELSE LET rest == Format(Tail(t), filename, k)
       IN  IF rest = Raise THEN Raise ELSE <<Head(t)>> \o rest

\* os.path.join(a, b)
PathJoin(a, b) ==
  IF b # <<>> /\ Head(b) = Ord("/") THEN b
  ELSE IF a = <<>> \/ a[Len(a)] = Ord("/") THEN a \o b
  ELSE a \o <<Ord("/")>> \o b

\* s.split("/")
RECURSIVE Split(_)
Split(s) ==
  LET i == IndexFrom(s, 1, Ord("/"))
  IN  IF i = 0 THEN <<s>>
      ELSE <<SubSeq(s, 1, i - 1)>> \o Split(SubSeq(s, i + 1, Len(s)))

\* The absolute path with the components comps.
RECURSIVE PathOf(_)
PathOf(comps) ==
  IF comps = <<>> THEN <<>> ELSE <<Ord("/")>> \o Head(comps) \o PathOf(Tail(comps))

\* The symbolic links of the file system: link |-> target (absolute).
Symlinks ==
  [p \in {Str(<<"/", "s", "r", "v", "/", "t", "f", "t", "p", "/", "l", "n", "k">>)}
     |-> Str(<<"/", "e", "t", "c">>)]

\* Levels of symbolic links realpath follows.
MaxLinkDepth == 2

\* os.path.realpath of an absolute path: "" and "." are dropped, ".." pops,
\* a symbolic link is replaced by its target.
RECURSIVE Resolve(_, _, _)
Resolve(done, rest, depth) ==
  IF rest = <<>> THEN done
  ELSE LET c == Head(rest)
           new == Append(done, c)
       IN  IF c = <<>> \/ c = <<Ord(".")>> THEN Resolve(done, Tail(rest), depth)
           ELSE IF c = <<Ord("."), Ord(".")>>
                THEN Resolve(IF done = <<>> THEN done ELSE SubSeq(done, 1, Len(done) - 1),
                             Tail(rest), depth)
           ELSE IF PathOf(new) \in DOMAIN Symlinks /\ depth > 0
                THEN Resolve(<<>>, Split(Symlinks[PathOf(new)]) \o Tail(rest), depth - 1)
           ELSE Resolve(new, Tail(rest), depth)

RealPath(p) ==
  LET comps == Resolve(<<>>, Split(p), MaxLinkDepth)
  IN  IF comps = <<>> THEN <<Ord("/")>> ELSE PathOf(comps)

\* The bound of the datetime loop.
MaxDatetime == 10

\* get_local_filename(filename, template) of the session of peer k, with
\* server.root_path = root: the local path, or Raise.
GetLocalFilename(root, k, filename, template, year) ==
  LET stripped == Lstrip(filename)
      tmp == Format(ExpandDatetime(template, year, MaxDatetime), stripped, k)
      full == IF tmp = Raise THEN Raise ELSE RealPath(PathJoin(root, tmp))
  IN  IF tmp = Raise THEN Raise
      ELSE IF ~StartsWith(full, root) THEN Raise
      ELSE full

\* The canonical path of a file name, before the check against the root.
CanonicalPath(root, k, filename, template, year) ==
  LET tmp == Format(ExpandDatetime(template, year, MaxDatetime), Lstrip(filename), k)
  IN  IF tmp = Raise THEN Raise ELSE RealPath(PathJoin(root, tmp))

\* P is R or lies under R: R is a prefix of P that ends at a separator.
UnderRoot(p, root) ==
  \/ p = root
  \/ StartsWith(p, IF root[Len(root)] = Ord("/") THEN root ELSE Append(root, Ord("/")))

(***************************************************************************)
(* Packet codec: struct.pack / struct.unpack                               *)
(***************************************************************************)

\* struct.pack("!2H", a, b)
Pack2H(a, b) == <<a \div 256, a % 256, b \div 256, b % 256>>

\* struct.unpack("!H", d)[0] of a two-byte buffer.
UnpackH(d) == d[1] * 256 + d[2]

\* data[i:j] of Python, with 0-based bounds.
Slice(d, i, j) == SubSeq(d, i + 1, IF j > Len(d) THEN Len(d) ELSE j)

\* data[2:].split(b"\x00")[0]
FirstField(d) ==
  LET rest == SubSeq(d, 3, Len(d))
      z == IndexFrom(rest, 1, 0)
  IN  IF z = 0 THEN rest ELSE SubSeq(rest, 1, z - 1)

\* bytes.decode: a byte that is no ASCII character raises UnicodeDecodeError.
Decode(b) == IF \E i \in DOMAIN b : b[i] >= 128 THEN Raise ELSE b

\* The payload size below which a DATA block is the last one: 512 in the
\* source, scaled down here.  The handlers only ever read a block of this
\* size and compare a payload's length with it.
BlockSize == 2

Octet == Str(<<"o", "c", "t", "e", "t">>)
RRQ(filename) == <<0, 1>> \o filename \o <<0>> \o Octet \o <<0>>
WRQ(filename) == <<0, 2>> \o filename \o <<0>> \o Octet \o <<0>>
DATA(block, payload) == Pack2H(3, block) \o payload
ACK(block) == Pack2H(4, block)
ERROR(code, msg) == Pack2H(5, code) \o msg \o <<0>>

ERROR_FILE_NOT_FOUND == "ERROR_FILE_NOT_FOUND"
ERROR_FILE_OPEN == "ERROR_FILE_OPEN"
ERROR_FILE_WRITE == "ERROR_FILE_WRITE"
ERROR_FILE_EXISTS == "ERROR_FILE_EXISTS"
ERROR_UNKNOWN_ID == "ERROR_UNKNOWN_ID"
ERROR_UNKNOWN == "ERROR_UNKNOWN"

\* ClientConnection.error_messages: <<wire code, message>>
error_messages(code) ==
  CASE code = ERROR_FILE_NOT_FOUND ->
         <<1, Str(<<"F", "i", "l", "e", " ", "n", "o", "t", " ", "f", "o", "u", "n", "d">>)>>
    [] code = ERROR_FILE_OPEN ->
         <<2, Str(<<"C", "a", "n", " ", "n", "o", "t", " ", "o", "p", "e", "n", " ",
                    "f", "i", "l", "e">>)>>
    [] code = ERROR_FILE_WRITE ->
         <<2, Str(<<"C", "a", "n", " ", "n", "o", "t", " ", "w", "r", "i", "t", "e", " ",
                    "f", "i", "l", "e">>)>>
    [] code = ERROR_FILE_EXISTS ->
         <<6, Str(<<"F", "i", "l", "e", " ", "a", "l", "r", "e", "a", "d", "y", " ",
                    "e", "x", "i", "s", "t", "s">>)>>
    [] code = ERROR_UNKNOWN_ID ->
         <<5, Str(<<"U", "n", "k", "n", "o", "w", "n", " ", "t", "r", "a", "n", "s", "f", "e", "r",
                    " ", "I", "D">>)>>
    [] code = ERROR_UNKNOWN ->
         <<4, Str(<<"I", "l", "l", "e", "g", "a", "l", " ", "T", "F", "T", "P", " ",
                    "o", "p", "e", "r", "a", "t", "i", "o", "n">>)>>

\* The datagram send_error(code) puts on the wire.
ErrorPacket(code) == ERROR(error_messages(code)[1], error_messages(code)[2])

(***************************************************************************)
(* The server's world: peers, configuration, file system                   *)
(***************************************************************************)

\* Peers, each one (remote_ip, remote_port) key.
NumKeys == 1
Keys == 1..NumKeys

\* Session objects the dispatcher creates in one run.
MaxSessions == 2
MaxDatagrams == 3
Sessions == 1..MaxSessions

\* The largest block number a peer puts in a DATA or ACK.
MaxBlock == 2

\* Retransmissions counted per datagram.
MaxRtx == 6

\* Server.root_path and the filename templates (the defaults of Server).
RootPath == Str(<<"/", "s", "r", "v", "/", "t", "f", "t", "p">>)
FilenameTemplate == Str(<<"{", "f", "i", "l", "e", "n", "a", "m", "e", "}">>)
Years == {2026}

\* The file names peers ask for.
NameA == Str(<<"a">>)
NameB == Str(<<"b">>)
NameN == Str(<<"/", "n">>)
NameSibling == Str(<<".", ".", "/", "t", "f", "t", "p", "x", "/", "s">>)
NameEscape == Str(<<".", ".", "/", "e", "t", "c", "/", "p">>)
Filenames == {NameA, NameB, NameN, NameSibling, NameEscape}

PathA == Str(<<"/", "s", "r", "v", "/", "t", "f", "t", "p", "/", "a">>)
PathB == Str(<<"/", "s", "r", "v", "/", "t", "f", "t", "p", "/", "b">>)
PathN == Str(<<"/", "s", "r", "v", "/", "t", "f", "t", "p", "/", "n">>)
PathSibling == Str(<<"/", "s", "r", "v", "/", "t", "f", "t", "p", "x", "/", "s">>)
PathEscape == Str(<<"/", "s", "r", "v", "/", "e", "t", "c", "/", "p">>)
DiskPaths == {PathA, PathB, PathN, PathSibling, PathEscape}

\* A path with no file.
NoFile == <<-1>>

FullBlock == [i \in 1..BlockSize |-> 1]
ShortBlock == <<7>>

\* The files when the server starts.
InitDisk ==
  [p \in DiskPaths |->
     IF p = PathA THEN <<97>>
     ELSE IF p = PathB THEN FullBlock \o <<2>>
     ELSE IF p = PathSibling THEN <<5>>
     ELSE IF p = PathEscape THEN <<6>>
     ELSE NoFile]

\* os.path.isfile
IsFile(dk, path) == path \in DOMAIN dk /\ dk[path] # NoFile

\* The datagrams peers send.
Blocks == 1..MaxBlock
Inbound ==
  {RRQ(f) : f \in Filenames} \cup {WRQ(f) : f \in Filenames}
    \cup {DATA(n, pl) : n \in Blocks, pl \in {FullBlock, ShortBlock}}
    \cup {ACK(n) : n \in Blocks}
    \cup {ERROR(0, Str(<<"x">>)), <<0, 9>>}
    \cup {<<0>>, <<0, 3, 0>>, <<0, 4>>, <<0, 5>>}

\* What the file operations of a step do: they work, or open(), read() or
\* write() raises.  Each handler has its own operations.
IoOutcomes(op) ==
  IF op = 1 THEN {"ok", "openfail", "readfail"}
  ELSE IF op = 2 THEN {"ok", "openfail"}
  ELSE IF op = 3 THEN {"ok", "writefail"}
  ELSE IF op = 4 THEN {"ok", "readfail"}
  ELSE {"ok"}

(***************************************************************************)
(* State                                                                   *)
(***************************************************************************)

VARIABLES
  remote_sockets,  \* Server.remote_sockets: key -> session, 0 when absent
  nsess,           \* the session objects created so far
  nrecv,           \* the datagrams recvfrom() has returned so far
  sess,            \* the fields of each ClientConnection
  wd,              \* each session's Watchdog thread
  disk,            \* the file system: path -> bytes
  disp,            \* the dispatcher thread (Server.run)
  ev,              \* the datagram the dispatcher received last: what it was
  out,             \* the datagrams the dispatcher sent while handling ev
  gh,              \* per session: what it has sent, written, opened
  clev,            \* the clear() call that ended last
  pq,              \* path resolution: the query
  pres             \* path resolution: the answer

vars == <<remote_sockets, nsess, nrecv, sess, wd, disk, disp, ev, out, gh, clev, pq, pres>>

\* current_data before the first send.
NoData == <<-1>>
\* fp = None
NoFp == [path |-> <<>>, mode |-> "none", pos |-> 0]

\* ClientConnection.__init__
NewSession ==
  [socket |-> 0, current_block_number |-> 1, current_data |-> NoData,
   current_data_length |-> 0, data_finished |-> FALSE, fp |-> NoFp]

\* Watchdog.__init__, and where the thread is: "new" (not started), "run"
\* (at the top of the loop), "retry", "timeout", "clearA", "clearB" (inside
\* the loop body), "done" (returned), "died" (ended by an exception).  idle
\* is history: the sleeps of the thread since process() last ran on its
\* session.
NewWatchdog ==
  [pc |-> "new", second_count |-> 0, event_reset |-> FALSE, event_stop |-> FALSE,
   target |-> 0, inmap |-> FALSE, idle |-> 0]

NewGhost ==
  [rtx |-> 0, acked |-> <<>>, sent |-> <<>>, reqpath |-> <<>>, dir |-> "none",
   only_data |-> TRUE, in_order |-> TRUE, readfail |-> FALSE,
   clears |-> 0, opens |-> 0, closes |-> 0, ended |-> "no"]

NoEvent == [key |-> 0, sess |-> 0, fresh |-> FALSE, op |-> 0, block |-> 0,
            outside |-> FALSE, existed |-> FALSE]
NoClear == [sess |-> 0, nth |-> 0, removed |-> 0, raised |-> FALSE, by |-> "none"]
NoQuery == [filename |-> <<>>, template |-> <<>>, root |-> <<>>, key |-> 0, year |-> 0]
NotAsked == <<-2>>

Init ==
  /\ remote_sockets = [k \in Keys |-> 0]
  /\ nsess = 0
  /\ nrecv = 0
  /\ sess = [s \in Sessions |-> NewSession]
  /\ wd = [s \in Sessions |-> NewWatchdog]
  /\ disk = InitDisk
  /\ disp = [pc |-> "recv", sess |-> 0, inmap |-> FALSE, then |-> "recv"]
  /\ ev = NoEvent
  /\ out = <<>>
  /\ gh = [s \in Sessions |-> NewGhost]
  /\ clev = NoClear
  /\ pq = NoQuery
  /\ pres = NotAsked

(***************************************************************************)
(* ClientConnection.process: one datagram on one session.  A handler takes *)
(* and returns a record r: the session's fields (rec), its watchdog (w),   *)
(* its history (g), the file system (disk), the datagrams sent (out) and   *)
(* how the call ends (how): "return", "clear" (it calls self.clear() and   *)
(* returns), "crash" (an exception leaves process), "clearcrash" (it calls *)
(* self.clear() and an exception follows).                                 *)
(***************************************************************************)

\* 65535 is followed by 0.
NextBlock(n) == IF n + 1 = 65536 THEN 0 ELSE n + 1

\* fp.read(n): the bytes at the handle's position.
ReadFile(dk, fp, n) ==
  LET content == IF IsFile(dk, fp.path) THEN dk[fp.path] ELSE <<>>
      last == IF fp.pos + n > Len(content) THEN Len(content) ELSE fp.pos + n
  IN  SubSeq(content, fp.pos + 1, last)

\* ClientConnection.send
Send(r, data) ==
  [r EXCEPT !.rec.current_data = data,
            !.out = Append(@, data),
            !.g.rtx = 0,
            !.g.sent = IF UnpackH(Slice(data, 0, 2)) = 3
                       THEN Append(@, <<UnpackH(Slice(data, 2, 4)), Slice(data, 4, Len(data))>>)
                       ELSE @]

\* ClientConnection.send_error(code), which ends in self.clear()
SendError(r, code) ==
  [r EXCEPT !.out = Append(@, ErrorPacket(code)), !.how = "clear"]

\* self.watchdog.start(): a thread is started once, a second start raises
\* RuntimeError.
StartWatchdog(r) ==
  IF r.w.pc # "new" THEN [r EXCEPT !.how = "crash"]
  ELSE [r EXCEPT !.w.pc = "run", !.w.second_count = 0]

\* The local path an RRQ or WRQ names, or Raise.
RequestPath(k, data, template) ==
  LET name == Decode(FirstField(data))
  IN  IF name = Raise THEN Raise
      ELSE GetLocalFilename(RootPath, k, name, template, CHOOSE y \in Years : TRUE)

\* A payload shorter than a block ends the transfer.
MarkFinished(r, payload) ==
  IF Len(payload) < BlockSize THEN [r EXCEPT !.rec.data_finished = TRUE] ELSE r

\* RRQ, once the file is open: the first block is read and sent, and the
\* watchdog started.
RRQFirstBlock(opened, filename, payload) ==
  StartWatchdog(
    MarkFinished(
      Send([opened EXCEPT !.rec.fp.pos = Len(payload),
                          !.rec.current_block_number = 1,
                          !.rec.current_data_length = Len(payload),
                          !.g.dir = "read", !.g.reqpath = filename, !.g.sent = <<>>,
                          !.g.readfail = FALSE, !.g.in_order = TRUE],
           DATA(1, payload)),
      payload))

\* RRQ, once the file name is resolved.
RRQOpen(r, filename, io) ==
  IF filename = Raise THEN [r EXCEPT !.how = "crash"]
  ELSE IF ~IsFile(r.disk, filename) THEN SendError(r, ERROR_FILE_NOT_FOUND)
  ELSE IF io = "openfail"
       THEN [SendError(r, ERROR_FILE_OPEN) EXCEPT !.how = "clearcrash"]
  ELSE IF io = "readfail"
       THEN [r EXCEPT !.rec.fp = [path |-> filename, mode |-> "rb", pos |-> 0],
                      !.g.opens = @ + 1, !.how = "crash"]
  ELSE RRQFirstBlock([r EXCEPT !.rec.fp = [path |-> filename, mode |-> "rb", pos |-> 0],
                               !.g.opens = @ + 1],
                     filename,
                     ReadFile(r.disk, [path |-> filename, mode |-> "rb", pos |-> 0],
                              BlockSize))

\* Whether the file name of an RRQ or WRQ leads out of the root.
RequestOutside(k, data) ==
  LET name == Decode(FirstField(data))
      p == IF name = Raise THEN Raise
           ELSE CanonicalPath(RootPath, k, name, FilenameTemplate, CHOOSE y \in Years : TRUE)
  IN  p # Raise /\ ~UnderRoot(p, RootPath)

\* op_code == 1
ProcRRQ(r, k, data, io) == RRQOpen(r, RequestPath(k, data, FilenameTemplate), io)

\* WRQ that does not look whether the target exists: open(filename, "wb")
\* empties it.
WRQOpenOverwrite(r, filename, io) ==
  IF filename = Raise THEN [r EXCEPT !.how = "crash"]
  ELSE IF io = "openfail" \/ filename \notin DOMAIN r.disk
       THEN SendError(r, ERROR_FILE_OPEN)
  ELSE StartWatchdog(
         Send([r EXCEPT !.rec.fp = [path |-> filename, mode |-> "wb", pos |-> 0],
                        !.disk[filename] = <<>>,
                        !.rec.current_data_length = 0,
                        !.rec.current_block_number = 1,
                        !.g.opens = @ + 1,
                        !.g.dir = "write", !.g.reqpath = filename, !.g.acked = <<>>,
                        !.g.only_data = TRUE],
              ACK(0)))

\* WRQ, once the file name is resolved.
WRQOpen(r, filename, io) ==
  IF filename = Raise THEN [r EXCEPT !.how = "crash"]
  ELSE IF IsFile(r.disk, filename) THEN SendError(r, ERROR_FILE_EXISTS)
  ELSE IF io = "openfail" \/ filename \notin DOMAIN r.disk
       THEN SendError(r, ERROR_FILE_OPEN)
  ELSE StartWatchdog(
         Send([r EXCEPT !.rec.fp = [path |-> filename, mode |-> "wb", pos |-> 0],
                        !.disk[filename] = <<>>,
                        !.rec.current_data_length = 0,
                        !.rec.current_block_number = 1,
                        !.g.opens = @ + 1,
                        !.g.dir = "write", !.g.reqpath = filename, !.g.acked = <<>>,
                        !.g.only_data = TRUE],
              ACK(0)))

\* op_code == 2
ProcWRQ(r, k, data, io) == WRQOpen(r, RequestPath(k, data, FilenameTemplate), io)

\* DATA with the expected block number: the payload is written and
\* acknowledged, and a short payload ends the session.
DATAAccept(r, block_number, payload, io) ==
  IF r.rec.fp.mode # "wb" \/ io = "writefail"
  THEN SendError([r EXCEPT !.rec.current_data_length = @ + Len(payload)],
                 ERROR_FILE_WRITE)
  ELSE [Send([r EXCEPT !.rec.current_data_length = @ + Len(payload),
                       !.disk[r.rec.fp.path] = @ \o payload,
                       !.rec.fp.pos = @ + Len(payload),
                       !.rec.current_block_number = NextBlock(@),
                       !.g.acked = Append(@, <<block_number, payload>>)],
             ACK(block_number))
        EXCEPT !.how = IF Len(payload) < BlockSize THEN "clear" ELSE @,
               !.g.ended = IF Len(payload) < BlockSize THEN "writedone" ELSE @]

\* DATA handled without comparing the block number with the expected one.
ProcDATAAnyBlock(r, k, data, io) ==
  IF Len(data) < 4 THEN [r EXCEPT !.how = "crash"]
  ELSE DATAAccept(r, UnpackH(Slice(data, 2, 4)), Slice(data, 4, Len(data)), io)

\* op_code == 3
ProcDATA(r, k, data, io) ==
  IF Len(data) < 4 THEN [r EXCEPT !.how = "crash"]
  ELSE IF UnpackH(Slice(data, 2, 4)) # r.rec.current_block_number THEN r
  ELSE DATAAccept(r, UnpackH(Slice(data, 2, 4)), Slice(data, 4, Len(data)), io)

\* ACK with the expected block number: the next block is read (a read that
\* raises gives an empty one) and sent.
ACKNextBlock(r, payload, failed) ==
  MarkFinished(
    Send([r EXCEPT !.rec.fp.pos = @ + Len(payload),
                   !.rec.current_block_number = NextBlock(@),
                   !.rec.current_data_length = @ + Len(payload),
                   !.g.readfail = @ \/ failed],
         DATA(NextBlock(r.rec.current_block_number), payload)),
    payload)

\* ACK handled without comparing the block number with the expected one.
ProcACKAnyBlock(r, k, data, io) ==
  IF r.rec.data_finished THEN [r EXCEPT !.how = "clear", !.g.ended = "readdone"]
  ELSE IF Len(data) < 4 THEN [r EXCEPT !.how = "crash"]
  ELSE IF r.rec.fp.mode = "rb" /\ io # "readfail"
       THEN ACKNextBlock(r, ReadFile(r.disk, r.rec.fp, BlockSize), FALSE)
  ELSE ACKNextBlock(r, <<>>, TRUE)

\* op_code == 4
ProcACK(r, k, data, io) ==
  IF r.rec.data_finished THEN [r EXCEPT !.how = "clear", !.g.ended = "readdone"]
  ELSE IF Len(data) < 4 THEN [r EXCEPT !.how = "crash"]
  ELSE IF UnpackH(Slice(data, 2, 4)) # r.rec.current_block_number THEN r
  ELSE IF r.rec.fp.mode = "rb" /\ io # "readfail"
       THEN ACKNextBlock(r, ReadFile(r.disk, r.rec.fp, BlockSize), FALSE)
  ELSE ACKNextBlock(r, <<>>, TRUE)

\* op_code == 5
ProcERROR(r, k, data, io) ==
  IF Len(data) < 4 THEN [r EXCEPT !.how = "crash"] ELSE [r EXCEPT !.how = "clear"]

\* any other op_code
ProcUnknown(r, k, data, io) == SendError(r, ERROR_UNKNOWN)

\* The handler of an op_code.
Dispatch(r, op_code, k, data, io) ==
  IF op_code = 1 THEN ProcRRQ(r, k, data, io)
  ELSE IF op_code = 2 THEN ProcWRQ(r, k, data, io)
  ELSE IF op_code = 3 THEN ProcDATA(r, k, data, io)
  ELSE IF op_code = 4 THEN ProcACK(r, k, data, io)
  ELSE IF op_code = 5 THEN ProcERROR(r, k, data, io)
  ELSE ProcUnknown(r, k, data, io)

\* ClientConnection.process(data): the watchdog is reset, the op_code
\* unpacked (a datagram of less than two bytes raises struct.error).  The
\* history's rtx counts the retransmissions since the last send(); it is -1
\* once the peer has been heard again and not been answered.  only_data
\* says that every datagram since the WRQ was a DATA, in_order that every
\* datagram since the RRQ was an ACK with the expected block number.
Process(r, k, data, io) ==
  IF Len(data) < 2
  THEN [r EXCEPT !.w.event_reset = TRUE, !.w.idle = 0, !.g.rtx = -1, !.how = "crash"]
  ELSE Dispatch([r EXCEPT !.w.event_reset = TRUE,
                          !.w.idle = 0,
                          !.g.rtx = -1,
                          !.g.only_data = @ /\ UnpackH(Slice(data, 0, 2)) = 3,
                          !.g.in_order = @ /\ UnpackH(Slice(data, 0, 2)) = 4
                                           /\ Len(data) >= 4
                                           /\ UnpackH(Slice(data, 2, 4))
                                                = r.rec.current_block_number],
                UnpackH(Slice(data, 0, 2)), k, data, io)

(***************************************************************************)
(* Threads.  A session object that nothing refers to any more (it is out   *)
(* of the map, its watchdog thread has ended or was never started, and no  *)
(* thread is inside its clear()) is freed: its slot goes back to the       *)
(* initial values.  The locals of a thread that has ended, and of one that *)
(* is about to see its stop flag, are never read again: they go back to    *)
(* their initial values too.  ev and out are kept until another thread     *)
(* takes a step after the dispatcher's, clev until the step after the      *)
(* clear().                                                                *)
(***************************************************************************)

Freed(s, M, S, W, D) ==
  /\ S[s].socket # 0
  /\ M[S[s].socket] # s
  /\ W[s].pc \in {"new", "done", "died"}
  /\ ~(D.pc = "clearB" /\ D.sess = s)
  /\ \A u \in Sessions : ~(W[u].pc \in {"clearA", "clearB"} /\ W[u].target = s)

\* The next state of the map, the sessions, the watchdogs, the histories and
\* the dispatcher.
Commit(M, S, W, G, D) ==
  /\ remote_sockets' = M
  /\ disp' = D
  /\ sess' = [s \in Sessions |-> IF Freed(s, M, S, W, D) THEN NewSession ELSE S[s]]
  /\ wd' = [s \in Sessions |->
              IF Freed(s, M, S, W, D) THEN [NewWatchdog EXCEPT !.pc = "done"]
              ELSE IF W[s].pc \in {"done", "died"}
                   THEN [NewWatchdog EXCEPT !.pc = W[s].pc, !.event_stop = W[s].event_stop]
              ELSE IF W[s].pc = "run" /\ W[s].event_stop
                   THEN [W[s] EXCEPT !.second_count = 0, !.event_reset = FALSE, !.idle = 0]
              ELSE W[s]]
  /\ gh' = [s \in Sessions |-> IF Freed(s, M, S, W, D) THEN NewGhost ELSE G[s]]

\* A step of a watchdog leaves the dispatcher's last datagram as it is only
\* while the dispatcher is still handling it.
WatchdogStepKeeps ==
  /\ ev' = IF disp.pc = "recv" THEN NoEvent ELSE ev
  /\ out' = IF disp.pc = "recv" THEN <<>> ELSE out

(***************************************************************************)
(* The dispatcher thread: Server.run                                       *)
(***************************************************************************)

\* The first half of ClientConnection.clear() on session t: the file handle
\* is closed and forgotten.  (The second half, ClearMap, removes the key
\* and stops the watchdog; another thread may run between the two.)
ClearFile(rec) == [rec EXCEPT !.fp = NoFp]
ClearGhost(g, rec) ==
  [g EXCEPT !.clears = @ + 1, !.closes = IF rec.fp # NoFp THEN @ + 1 ELSE @]

\* The second half of clear() on session t by a thread that found the key
\* in the map (inmap) before: del remote_sockets[socket], watchdog.stop().
\* The del raises KeyError when the key has gone meanwhile.
ClearRaises(t, inmap) == inmap /\ remote_sockets[sess[t].socket] = 0
ClearMap(t, inmap) ==
  IF inmap THEN [remote_sockets EXCEPT ![sess[t].socket] = 0] ELSE remote_sockets

\* One iteration of Server.run: recvfrom, the session of the key is looked
\* up or created, and process(data) runs up to its return, to the exception
\* that leaves it, or to the middle of the clear() it ends with.  At most
\* max datagrams that count (n = 1) arrive in a run.
ServeDatagram(k, data, max, n) ==
  /\ disp.pc = "recv"
  /\ remote_sockets[k] # 0 \/ nsess < MaxSessions
  /\ nrecv < max
  /\ \E fresh \in {remote_sockets[k] = 0},
        op \in {IF Len(data) < 2 THEN 0 ELSE UnpackH(Slice(data, 0, 2))} :
       \E s \in {IF fresh THEN nsess + 1 ELSE remote_sockets[k]},
          io \in IoOutcomes(op) :
         \E r \in {Process([rec |-> [sess[s] EXCEPT !.socket = k], w |-> wd[s],
                             g |-> gh[s], disk |-> disk, out |-> <<>>,
                             how |-> "return"], k, data, io)} :
           \E clears \in {r.how \in {"clear", "clearcrash"}} :
             /\ nsess' = IF fresh THEN s ELSE nsess
             /\ nrecv' = nrecv + n
             /\ ev' = [key |-> k, sess |-> s, fresh |-> fresh, op |-> op,
                       block |-> IF op \in {3, 4} /\ Len(data) >= 4
                                 THEN UnpackH(Slice(data, 2, 4)) ELSE 0,
                       outside |-> op \in {1, 2} /\ RequestOutside(k, data),
                       existed |-> op \in {1, 2}
                                   /\ IsFile(disk, RequestPath(k, data, FilenameTemplate))]
             /\ out' = r.out
             /\ disk' = r.disk
             /\ Commit([remote_sockets EXCEPT ![k] = s],
                       [sess EXCEPT ![s] = IF clears THEN ClearFile(r.rec) ELSE r.rec],
                       [wd EXCEPT ![s] = r.w],
                       [gh EXCEPT ![s] = IF clears THEN ClearGhost(r.g, r.rec) ELSE r.g],
                       [pc |-> IF clears THEN "clearB"
                               ELSE IF r.how = "crash" THEN "crashed" ELSE "recv",
                        sess |-> IF clears THEN s ELSE 0,
                        inmap |-> clears,
                        then |-> IF r.how = "clearcrash" THEN "crashed" ELSE "recv"])
             /\ clev' = NoClear
             /\ UNCHANGED <<pq, pres>>

Receive(k, data, max) == ServeDatagram(k, data, max, 1)

\* A datagram of any kind arrives.
Recv(k, data) == Receive(k, data, MaxDatagrams)

\* The rest of the clear() the dispatcher is in.
DispClearB ==
  /\ disp.pc = "clearB"
  /\ \E t \in {disp.sess} :
       \E raises \in {ClearRaises(t, disp.inmap)} :
         /\ clev' = [sess |-> t, nth |-> gh[t].clears,
                     removed |-> IF disp.inmap THEN remote_sockets[sess[t].socket] ELSE 0,
                     raised |-> raises, by |-> "dispatcher"]
         /\ Commit(IF raises THEN remote_sockets ELSE ClearMap(t, disp.inmap),
                   sess,
                   IF raises THEN wd ELSE [wd EXCEPT ![t].event_stop = TRUE],
                   gh,
                   [pc |-> IF raises THEN "crashed" ELSE disp.then,
                    sess |-> 0, inmap |-> FALSE, then |-> "recv"])
  /\ UNCHANGED <<nsess, nrecv, disk, ev, out, pq, pres>>

(***************************************************************************)
(* The watchdog thread of session s: Watchdog.run                          *)
(***************************************************************************)

\* The idle seconds after which the session is torn down, and the period of
\* the retransmissions.
TimeoutSeconds == 25
RetrySeconds == 5

\* The end of an iteration: a pending reset zeroes the count, then
\* time.sleep(1) and second_count += 1.
Sleep(w) ==
  [w EXCEPT !.second_count = (IF w.event_reset THEN 0 ELSE @) + 1,
            !.event_reset = FALSE,
            !.idle = @ + 1,
            !.pc = "run"]

\* What the top of the loop decides.
WatchdogDecision(w) ==
  IF w.event_stop THEN "done"
  ELSE IF w.second_count >= TimeoutSeconds THEN "timeout"
  ELSE IF w.second_count > 0 /\ w.second_count % RetrySeconds = 0 THEN "retry"
  ELSE "sleep"

\* The process lives as long as Server.run does.
Alive == disp.pc # "crashed"

\* The top of the loop, and the rest of an iteration that does nothing else.
WdTop(s) ==
  /\ Alive
  /\ wd[s].pc = "run"
  /\ Commit(remote_sockets, sess,
            [wd EXCEPT ![s] = IF WatchdogDecision(wd[s]) = "sleep" THEN Sleep(wd[s])
                              ELSE [wd[s] EXCEPT !.pc = WatchdogDecision(wd[s])]],
            gh, disp)
  /\ WatchdogStepKeeps
  /\ clev' = NoClear
  /\ UNCHANGED <<nsess, nrecv, disk, pq, pres>>

\* self.server.remote_sockets[self.client_connection.socket].retry_send():
\* the session now under the key resends its current_data; then the rest of
\* the iteration.
WdRetry(s) ==
  /\ Alive
  /\ wd[s].pc = "retry"
  /\ \E t \in {remote_sockets[sess[s].socket]} :
       \E raises \in {IF t = 0 THEN TRUE ELSE sess[t].current_data = NoData} :
         Commit(remote_sockets, sess,
                [wd EXCEPT ![s] = IF raises THEN [wd[s] EXCEPT !.pc = "died"]
                                  ELSE Sleep(wd[s])],
                IF raises THEN gh
                ELSE [gh EXCEPT ![t].rtx = IF 0 <= @ /\ @ < MaxRtx THEN @ + 1 ELSE @],
                disp)
  /\ WatchdogStepKeeps
  /\ clev' = NoClear
  /\ UNCHANGED <<nsess, nrecv, disk, pq, pres>>

\* The timeout: the session now under the key is looked up ...
WdTimeout(s) ==
  /\ Alive
  /\ wd[s].pc = "timeout"
  /\ \E t \in {remote_sockets[sess[s].socket]} :
       Commit(remote_sockets, sess,
              [wd EXCEPT ![s] = IF t = 0 THEN [wd[s] EXCEPT !.pc = "died"]
                                ELSE [wd[s] EXCEPT !.pc = "clearA", !.target = t]],
              gh, disp)
  /\ WatchdogStepKeeps
  /\ clev' = NoClear
  /\ UNCHANGED <<nsess, nrecv, disk, pq, pres>>

\* ... its clear() closes the file and tests the key ...
WdClearA(s) ==
  /\ Alive
  /\ wd[s].pc = "clearA"
  /\ \E t \in {wd[s].target} :
       Commit(remote_sockets,
              [sess EXCEPT ![t] = ClearFile(sess[t])],
              [wd EXCEPT ![s].pc = "clearB",
                         ![s].inmap = remote_sockets[sess[t].socket] # 0],
              [gh EXCEPT ![t] = ClearGhost(gh[t], sess[t])],
              disp)
  /\ WatchdogStepKeeps
  /\ clev' = NoClear
  /\ UNCHANGED <<nsess, nrecv, disk, pq, pres>>

\* ... and removes the key and stops the watchdog of the session cleared.
WdClearB(s) ==
  /\ Alive
  /\ wd[s].pc = "clearB"
  /\ \E t \in {wd[s].target} :
       \E raises \in {ClearRaises(t, wd[s].inmap)} :
         /\ clev' = [sess |-> t, nth |-> gh[t].clears,
                     removed |-> IF wd[s].inmap THEN remote_sockets[sess[t].socket] ELSE 0,
                     raised |-> raises, by |-> "watchdog"]
         /\ Commit(IF raises THEN remote_sockets ELSE ClearMap(t, wd[s].inmap),
                   sess,
                   IF raises THEN [wd EXCEPT ![s].pc = "died"]
                   ELSE [wd EXCEPT ![t].event_stop = TRUE, ![s].pc = "done"],
                   gh, disp)
  /\ WatchdogStepKeeps
  /\ UNCHANGED <<nsess, nrecv, disk, pq, pres>>

Next ==
  \/ \E k \in Keys, data \in Inbound : Recv(k, data)
  \/ DispClearB
  \/ \E s \in Sessions : WdTop(s)
  \/ \E s \in Sessions : WdRetry(s)
  \/ \E s \in Sessions : WdTimeout(s)
  \/ \E s \in Sessions : WdClearA(s)
  \/ \E s \in Sessions : WdClearB(s)

Spec == Init /\ [][Next]_vars

\* The server with peers that keep to one read and one write transfer, and
\* send more datagrams.
MaxTransferDatagrams == 4
TransferInbound ==
  {RRQ(NameB), WRQ(NameN)}
    \cup {DATA(n, pl) : n \in Blocks, pl \in {FullBlock, ShortBlock}}
    \cup {ACK(n) : n \in Blocks}

TransferRecv(k, data) == Receive(k, data, MaxTransferDatagrams)

NextTransfer ==
  \/ \E k \in Keys, data \in TransferInbound : TransferRecv(k, data)
  \/ DispClearB
  \/ \E s \in Sessions : WdTop(s)
  \/ \E s \in Sessions : WdRetry(s)
  \/ \E s \in Sessions : WdTimeout(s)
  \/ \E s \in Sessions : WdClearA(s)
  \/ \E s \in Sessions : WdClearB(s)

SpecTransfer == Init /\ [][NextTransfer]_vars

\* The server with a peer that writes one file and sends its datagrams as
\* often as it likes, for as long as it likes; the threads of the server
\* keep running: the dispatcher finishes the clear() it is in, and every
\* watchdog goes through its loop (time.sleep(1) returns).
WriteInbound == {WRQ(NameN), DATA(1, FullBlock), DATA(2, ShortBlock)}

WriteRecv(k, data) == ServeDatagram(k, data, 1, 0)

NextWrite ==
  \/ \E k \in Keys, data \in WriteInbound : WriteRecv(k, data)
  \/ DispClearB
  \/ \E s \in Sessions : WdTop(s)
  \/ \E s \in Sessions : WdRetry(s)
  \/ \E s \in Sessions : WdTimeout(s)
  \/ \E s \in Sessions : WdClearA(s)
  \/ \E s \in Sessions : WdClearB(s)

SpecWrite ==
  /\ Init
  /\ [][NextWrite]_vars
  /\ WF_vars(DispClearB)
  /\ \A s \in Sessions :
       /\ WF_vars(WdTop(s))
       /\ WF_vars(WdRetry(s))
       /\ WF_vars(WdTimeout(s))
       /\ WF_vars(WdClearA(s))
       /\ WF_vars(WdClearB(s))

(***************************************************************************)
(* get_local_filename on its own, asked about one file                     *)
(* name, template and root.                                                *)
(***************************************************************************)

PathNames ==
  Filenames \cup
  {Str(<<"l", "n", "k", "/", "p">>), Str(<<"a", "/", ".", ".", "/", "b">>),
   Str(<<".", ".">>), Str(<<"/", "/", "a">>), <<>>,
   Str(<<".", ".", "/", "t", "f", "t", "p", "/", "a">>)}

PathTemplates ==
  {FilenameTemplate,
   Str(<<"{", "r", "e", "m", "o", "t", "e", "_", "i", "p", "}", "/",
         "{", "f", "i", "l", "e", "n", "a", "m", "e", "}">>),
   Str(<<"{", "d", "a", "t", "e", "t", "i", "m", "e", ":", "%", "Y", "}", "/",
         "{", "f", "i", "l", "e", "n", "a", "m", "e", "}">>),
   Str(<<".", ".", "/", "{", "f", "i", "l", "e", "n", "a", "m", "e", "}">>),
   Str(<<"{", "f", "i", "l", "e", "n", "a", "m", "e">>)}

\* Server.root_path is a canonical path (os.path.realpath(root_path)).
PathRoots == {RootPath, Str(<<"/", "s", "r", "v">>)}

InitPath ==
  /\ remote_sockets = [k \in Keys |-> 0]
  /\ nsess = 0
  /\ nrecv = 0
  /\ sess = [s \in Sessions |-> NewSession]
  /\ wd = [s \in Sessions |-> NewWatchdog]
  /\ disk = InitDisk
  /\ disp = [pc |-> "recv", sess |-> 0, inmap |-> FALSE, then |-> "recv"]
  /\ ev = NoEvent
  /\ out = <<>>
  /\ gh = [s \in Sessions |-> NewGhost]
  /\ clev = NoClear
  /\ pq \in [filename : PathNames, template : PathTemplates, root : PathRoots,
             key : Keys, year : Years]
  /\ pres = NotAsked

\* The call get_local_filename(filename, template).
AskPath ==
  /\ pres = NotAsked
  /\ pres' = GetLocalFilename(pq.root, pq.key, pq.filename, pq.template, pq.year)
  /\ UNCHANGED <<remote_sockets, nsess, nrecv, sess, wd, disk, disp, ev, out, gh,
                 clev, pq>>

NextPath == AskPath

SpecPath == InitPath /\ [][NextPath]_vars

\* C4: a path get_local_filename returns is the root or lies under it: the
\* root is a prefix of the path that ends at a path separator.
ReturnedPathUnderRoot ==
  (pres # NotAsked /\ pres # Raise) => UnderRoot(pres, pq.root)

(***************************************************************************)
(* Properties of the sessions map and the watchdogs                        *)
(***************************************************************************)

\* The sessions whose watchdog thread is running.
WatchdogRuns(s) == wd[s].pc \in {"run", "retry", "timeout", "clearA", "clearB"}

\* The dispatcher is between two datagrams.
BetweenDatagrams == disp.pc = "recv"

\* C1: every session that is created is destroyed once its peer is silent,
\* after 25 idle ticks at the latest.  Only a watchdog removes the key of a
\* silent peer, so whenever a key is in the sessions map and the dispatcher
\* waits for the next datagram, a watchdog thread of that key is running.
SilentSessionIsDestroyed ==
  \A k \in Keys :
    (BetweenDatagrams /\ remote_sockets[k] # 0) =>
      \E s \in Sessions : sess[s].socket = k /\ WatchdogRuns(s)

\* The watchdog of session s is active: started and not stopped.
WatchdogActive(s) == wd[s].pc # "new" /\ ~wd[s].event_stop

\* C10: between dispatcher steps a key is in the sessions map if and only if
\* the watchdog of its session is active.
InMapIffWatchdogActive ==
  BetweenDatagrams =>
    /\ \A k \in Keys : remote_sockets[k] # 0 => WatchdogActive(remote_sockets[k])
    /\ \A s \in Sessions :
         (sess[s].socket # 0 /\ WatchdogActive(s)) => remote_sockets[sess[s].socket] = s

(***************************************************************************)
(* Properties of the handling of one datagram                              *)
(***************************************************************************)

\* The dispatcher has finished with the datagram ev: process() has returned
\* or an exception has left it.
Handled == ev.key # 0 /\ disp.pc # "clearB"

\* The op_code of an ERROR packet is 5.
IsErrorPacket(d) == Len(d) >= 4 /\ UnpackH(Slice(d, 0, 2)) = 5

\* C7: a first datagram of a key that is no RRQ and no WRQ is answered with
\* ERROR "Illegal TFTP operation" and nothing else, and the key is not in
\* the sessions map afterwards.
InvalidInitialOpcodeRejected ==
  (Handled /\ ev.fresh /\ ev.op >= 3) =>
    /\ out = <<ErrorPacket(ERROR_UNKNOWN)>>
    /\ remote_sockets[ev.key] = 0

\* C5: an RRQ or WRQ whose file name resolves outside the root is answered
\* with one ERROR packet, no file is opened for it, and the key is not in
\* the sessions map afterwards.
EscapingRequestRejected ==
  (Handled /\ ev.op \in {1, 2} /\ ev.outside) =>
    /\ Len(out) = 1 /\ IsErrorPacket(out[1])
    /\ sess[ev.sess].fp = NoFp
    /\ remote_sockets[ev.key] = 0

\* C6: a WRQ whose target exists as a file is answered with ERROR code 6
\* "File already exists" and nothing else (no ACK 0), the files stay as
\* they are, the session holds no open file, and once the dispatcher has
\* finished with the datagram the key is not in the sessions map.
NoOverwrite ==
  /\ [](  (Handled /\ ev.op = 2 /\ ev.existed) =>
            /\ out = <<ErrorPacket(ERROR_FILE_EXISTS)>>
            /\ remote_sockets[ev.key] = 0)
  /\ [][ (nrecv' # nrecv /\ ev'.op = 2 /\ ev'.existed) =>
            /\ disk' = disk
            /\ out' = <<ErrorPacket(ERROR_FILE_EXISTS)>>
            /\ sess'[ev'.sess].fp = NoFp ]_vars

\* C6, its case: the WRQ for a file that exists has been refused.
ExistingTargetRefused ==
  /\ Handled /\ ev.op = 2 /\ ev.existed
  /\ out = <<ErrorPacket(ERROR_FILE_EXISTS)>>
  /\ disk = InitDisk

(***************************************************************************)
(* Properties of whole transfers                                           *)
(***************************************************************************)

\* The payloads of a log of <<block number, payload>>, one after the other.
RECURSIVE Payloads(_)
Payloads(log) == IF log = <<>> THEN <<>> ELSE Head(log)[2] \o Payloads(Tail(log))

\* The blocks of a log are 1, 2, ... in this order.
InBlockOrder(log) == \A i \in 1..Len(log) : log[i][1] = i

\* C2: when a write session that has received only DATA packets since its
\* WRQ ends with a short DATA accepted, the file holds the payloads of the
\* accepted blocks 1..N, each once, in block order.
WriteSuccessContent ==
  \A s \in Sessions :
    (gh[s].ended = "writedone" /\ gh[s].only_data) =>
      /\ InBlockOrder(gh[s].acked)
      /\ disk[gh[s].reqpath] = Payloads(gh[s].acked)

\* C2, its case: a write of two blocks has ended on the success path.
WriteOfTwoBlocksDone ==
  \E s \in Sessions :
    /\ gh[s].ended = "writedone" /\ gh[s].only_data
    /\ Len(gh[s].acked) = 2
    /\ disk[gh[s].reqpath] = FullBlock \o ShortBlock

\* C3: when a read session ends on the success path (a short DATA sent, then
\* an ACK), the payloads of the DATA blocks it has passed to send() are the
\* blocks 1..N in order and concatenate to the bytes of the requested file.
ReadSuccessContent ==
  \A s \in Sessions :
    (/\ gh[s].ended = "readdone" /\ gh[s].dir = "read"
     /\ gh[s].sent # <<>>
     /\ Len(gh[s].sent[Len(gh[s].sent)][2]) < BlockSize) =>
      /\ InBlockOrder(gh[s].sent)
      /\ Payloads(gh[s].sent) = disk[gh[s].reqpath]

(***************************************************************************)
(* Properties of the watchdog and of clear()                               *)
(***************************************************************************)

\* C8: when the watchdog of a session decides the timeout and the last the
\* session did was to send a datagram (the peer has been silent since), the
\* datagram has been retransmitted four times (at 5, 10, 15 and 20 idle
\* seconds).
SilenceRetransmitsFourTimes ==
  \A s \in Sessions :
    (/\ Alive /\ wd[s].pc = "timeout"
     /\ remote_sockets[sess[s].socket] = s /\ gh[s].rtx >= 0) =>
      gh[s].rtx = (TimeoutSeconds \div RetrySeconds) - 1

\* C9: a clear() that is the second or a later one of its session raises
\* nothing and removes no other session from the map.
SecondClearChangesNothing ==
  clev.nth >= 2 => (~clev.raised /\ clev.removed \in {0, clev.sess})

(***************************************************************************)
(* Properties of the session's fields                                      *)
(***************************************************************************)

\* Session object s exists before and after the step.
SameSession(s) == sess[s].socket # 0 /\ sess'[s].socket # 0

\* C11: every step leaves a session's current_block_number as it is or
\* advances it by one, 65535 being followed by 0; no step resets it or moves
\* it backwards.
BlockNumberAdvancesByOne ==
  [][\A s \in Sessions :
       SameSession(s) =>
         sess'[s].current_block_number
           \in {sess[s].current_block_number, NextBlock(sess[s].current_block_number)}]_vars

\* Session s has been torn down: a clear() of it has ended, it is out of
\* the map and no thread is inside its clear().
Destroyed(s) ==
  /\ sess[s].socket # 0
  /\ remote_sockets[sess[s].socket] # s
  /\ gh[s].clears >= 1
  /\ ~(disp.pc = "clearB" /\ disp.sess = s)
  /\ \A u \in Sessions : ~(wd[u].pc \in {"clearA", "clearB"} /\ wd[u].target = s)

\* C12: a session opens at most one file handle, closes no handle twice,
\* and has closed every handle it opened once it is torn down.
FileHandleOpenedAndClosedOnce ==
  \A s \in Sessions :
    /\ gh[s].opens <= 1
    /\ gh[s].closes <= gh[s].opens
    /\ Destroyed(s) => gh[s].closes = gh[s].opens

\* C13: a read session in which every datagram after the RRQ is an ACK with
\* the expected block number, and which ends on the success path, has sent
\* floor(L / block size) + 1 DATA blocks for a file of L bytes, the last
\* with L mod block size bytes.
ReadSendsAllBlocks ==
  \A s \in Sessions :
    (gh[s].ended = "readdone" /\ gh[s].dir = "read" /\ gh[s].in_order) =>
      /\ Len(gh[s].sent) = (Len(disk[gh[s].reqpath]) \div BlockSize) + 1
      /\ Len(gh[s].sent[Len(gh[s].sent)][2]) = Len(disk[gh[s].reqpath]) % BlockSize

\* The datagram ev is an ACK on a read session that has not sent its last
\* block, or a DATA on a write session, and its block number is not the one
\* session t expects.
MismatchedBlock(e, t) ==
  /\ e.key # 0 /\ ~e.fresh
  /\ \/ e.op = 4 /\ gh[t].dir = "read" /\ ~sess[t].data_finished
     \/ e.op = 3 /\ gh[t].dir = "write"
  /\ e.block # 0
  /\ e.block # sess[t].current_block_number

\* C14: a DATA (write) or ACK (read) with a block number other than the
\* expected one is ignored: the step sends nothing, leaves the files, the
\* session's fields and what it has sent and written as they are, and the
\* session in the map; it sets the reset flag of the watchdog.
MismatchedBlockIgnored ==
  [][\A t \in Sessions :
       (nrecv' # nrecv /\ ev'.sess = t /\ MismatchedBlock(ev', t)) =>
         /\ out' = <<>>
         /\ disk' = disk
         /\ sess'[t] = sess[t]
         /\ gh'[t].sent = gh[t].sent /\ gh'[t].acked = gh[t].acked
         /\ remote_sockets' = remote_sockets
         /\ disp'.pc = "recv"
         /\ wd[t].event_stop \/ wd'[t].event_reset]_vars

\* C14, its case: a mismatched block has just been ignored by a session
\* that is in the middle of a transfer.
MismatchedBlockSeen ==
  /\ disp.pc = "recv" /\ ev.sess # 0
  /\ MismatchedBlock(ev, ev.sess)
  /\ out = <<>>
  /\ remote_sockets[ev.key] = ev.sess
  /\ sess[ev.sess].fp # NoFp

\* C15: the watchdog decides the timeout only when its session has
\* processed no datagram during the last 25 ticks, and a retransmission only
\* when it has processed none during the last 5 (taken while the dispatcher
\* is between datagrams and the watchdog has not been stopped).
WatchdogActsOnlyAfterSilence ==
  [][\A s \in Sessions :
       (wd[s].pc = "run" /\ disp.pc = "recv" /\ ~wd[s].event_stop) =>
         /\ wd'[s].pc = "timeout" => wd[s].idle >= TimeoutSeconds
         /\ wd'[s].pc = "retry" => wd[s].idle >= RetrySeconds]_vars

\* C16: process() does not start on a session while the watchdog of that
\* session is inside clear() on it, between closing the file and removing
\* the key; and the dispatcher is not inside clear() on a session while the
\* watchdog of that session is.
WatchdogExcludesDispatcher ==
  [][\A s \in Sessions :
       (wd[s].pc = "clearB" /\ wd[s].target = s) =>
         /\ ~(nrecv' # nrecv /\ ev'.sess = s)
         /\ ~(disp.pc = "clearB" /\ disp.sess = s)]_vars

SessionOver(s) ==
  \/ ~Alive
  \/ sess[s].socket = 0
  \/ remote_sockets[sess[s].socket] # s
  \/ wd[s].pc \notin {"run", "retry"}
  \/ wd[s].event_stop

\* C17: after a write session has ignored a DATA with another block number
\* than the expected one, sending nothing, its watchdog comes to resend the
\* last ACK, unless the session ends first.
IgnoredDataLeadsToResend ==
  \A s \in Sessions :
    (disp.pc = "recv" /\ ev.sess = s /\ ev.op = 3 /\ MismatchedBlock(ev, s) /\ out = <<>>)
      ~> (wd[s].pc = "retry" \/ SessionOver(s))

\* C18: process() returns normally for every datagram, so Server.run is
\* never ended by an exception.
DispatcherSurvives == disp.pc # "crashed"

\* C19: the session a watchdog finds under its key, when it looks the key
\* up to call retry_send() or clear(), is the session the watchdog belongs
\* to.
WatchdogActsOnOwnSession ==
  [][\A s \in Sessions :
       (/\ wd[s].pc \in {"retry", "timeout"}
        /\ wd'[s].pc # wd[s].pc
        /\ remote_sockets[sess[s].socket] # 0) => remote_sockets[sess[s].socket] = s]_vars

\* The datagram that arrives in this step is the request of an established
\* session s (in the map, file open, watchdog running), sent again.
RepeatedRequest(s) ==
  /\ nrecv' # nrecv /\ ev'.sess = s /\ ~ev'.fresh
  /\ remote_sockets[ev'.key] = s
  /\ wd[s].pc = "run" /\ ~wd[s].event_stop
  /\ sess[s].fp # NoFp
  /\ \/ ev'.op = 1 /\ gh[s].dir = "read"
     \/ ev'.op = 2 /\ gh[s].dir = "write"

\* C20: a request sent again on an established session leaves the
\* dispatcher running and the session in the map, is not answered with an
\* ERROR, and changes neither the block counter nor the files.
RepeatedRequestHarmless ==
  [][\A s \in Sessions :
       RepeatedRequest(s) =>
         /\ disp'.pc = "recv"
         /\ remote_sockets'[ev'.key] = s
         /\ \A i \in 1..Len(out') : ~IsErrorPacket(out'[i])
         /\ sess'[s].current_block_number = sess[s].current_block_number
         /\ disk' = disk]_vars

====
